---- MODULE Spec2Model ----
(***************************************************************************)
(* A model of the incremental extractor of real_world/lib_stream           *)
(* (StreamExtractor: push, flush, _merge, arun_async) and of the           *)
(* extraction function it calls, of the sessions of                        *)
(* real_world/websocket_server (ws_endpoint) and of the endpoint of        *)
(* real_world/rest_api (extract_endpoint).  Text is a sequence of          *)
(* one-character strings, so that "\n".join, len, str.find and str.strip   *)
(* are computed and not assumed.                                           *)
(***************************************************************************)
EXTENDS Integers, Sequences, FiniteSets, TLC

VARIABLES
    max_char_buffer,  \* self._max_char_buffer, set by the constructor
    buffer,           \* self._buffer: the pending fragments
    transcript,       \* self._transcript: every non-empty fragment pushed
    merged,           \* self._merged: the spans accepted so far
    extract,          \* what lx.extract is bound to: "any" or "mk_doc"
    last,             \* the last call: its arguments, what it saw, its result,
                      \* and whether an extraction call has raised so far
    all_deltas,       \* the non-empty deltas handed to the caller, in order
    calls             \* the number of extraction calls made so far

VARIABLES
    conns,                  \* the connections the server is given
    aggregate,              \* per connection: the aggregate query parameter
    conversation_messages,  \* per connection: the handler's turn history
    pc,                     \* per connection: where its handler stands
    call_text,              \* per connection: text, as passed to the extraction call
    doc,                    \* per connection: the document the call returned
    sent,                   \* per connection: the frames sent to the client
    received                \* per connection: the frames read from the client

VARIABLES
    aiter,       \* arun_async: the chunks the stream has not delivered yet
    run_pc,      \* arun_async: where the coroutine stands
    run_chunk    \* arun_async: chunk, the loop variable

VARIABLES
    rest_pc,        \* extract_endpoint: where the handler of the request stands
    rest_messages,  \* extract_endpoint: payload.messages of the request
    rest_text,      \* extract_endpoint: text, as passed to lx.extract
    rest_response   \* the response to the last request answered

exvars == <<max_char_buffer, buffer, transcript, merged, extract, last,
            all_deltas, calls>>

wsvars == <<conns, aggregate, conversation_messages, pc, call_text, doc,
            sent, received>>

runvars == <<aiter, run_pc, run_chunk>>

restvars == <<rest_pc, rest_messages, rest_text, rest_response>>

vars == <<max_char_buffer, buffer, transcript, merged, extract, last,
          all_deltas, calls, conns, aggregate, conversation_messages, pc,
          call_text, doc, sent, received, aiter, run_pc, run_chunk,
          rest_pc, rest_messages, rest_text, rest_response>>

----------------------------------------------------------------------------
(* Bounds of the model. *)

MaxPushes == 3   \* non-empty fragments pushed on one extractor
MaxCalls == 2    \* extraction calls made on one extractor
MaxNew == 2      \* spans in one extraction result of the arbitrary extractor
MaxFrames == 3   \* frames read on one connection
MaxMessages == 3 \* messages in one request to the endpoint

----------------------------------------------------------------------------
(* Data. *)

\* None as a start_pos / end_pos; a missing char_interval is the empty tuple.
NonePos == -1

NoInterval == <<>>

Extraction(cls, text, ci) ==
    [extraction_class |-> cls, extraction_text |-> text, char_interval |-> ci]

CharInterval(s, e) == <<s, e>>

\* The fragments a caller pushes: "", "A", "ABC", "DEF", "GHI".
Chunks ==
    { <<>>, <<"A">>, <<"A", "B", "C">>, <<"D", "E", "F">>, <<"G", "H", "I">> }

\* The fragments pushed on the extractor of the arbitrary extraction function,
\* which does not read the text: "" and "ABC".
AnyChunks == { <<>>, <<"A", "B", "C">> }

\* The values max_char_buffer is constructed with: 10 as in the test, and the
\* odd 7, whose half is not a whole number, and the default 800.
Thresholds == {7, 10, 800}

\* The spans the arbitrary extraction function may return.
\* [1,3) overlaps the two others; [0,2) and [2,3) are adjacent.
SpanUniverse ==
    { Extraction("k", "a", CharInterval(0, 2)),
      Extraction("k", "b", CharInterval(1, 3)),
      Extraction("k", "a", CharInterval(2, 3)) }

RECURSIVE SeqsUpTo(_, _)
SeqsUpTo(S, n) ==
    IF n = 0 THEN { <<>> }
    ELSE LET shorter == SeqsUpTo(S, n - 1)
         IN shorter \cup { Append(s, x) : s \in { t \in shorter : Len(t) = n - 1 }, x \in S }

NewLists == SeqsUpTo(SpanUniverse, MaxNew)

----------------------------------------------------------------------------
(* Text helpers. *)

RECURSIVE SumLen(_)
\* sum(len(c) for c in self._buffer)
SumLen(buf) ==
    IF buf = <<>> THEN 0 ELSE Len(Head(buf)) + SumLen(Tail(buf))

RECURSIVE Join(_)
\* "\n".join(self._transcript)
Join(parts) ==
    IF parts = <<>> THEN <<>>
    ELSE IF Len(parts) = 1 THEN Head(parts)
    ELSE Head(parts) \o <<"\n">> \o Join(Tail(parts))

\* str.find for a one-character token: the first index (from 0), or -1.
Find(text, token) ==
    IF \E i \in 1..Len(text) : text[i] = token
    THEN (CHOOSE i \in 1..Len(text) :
              /\ text[i] = token
              /\ \A j \in 1..(i - 1) : text[j] # token) - 1
    ELSE -1

RECURSIVE MkDocFrom(_, _)
MkDocFrom(full_text, tokens) ==
    IF tokens = <<>> THEN <<>>
    ELSE LET idx == Find(full_text, Head(tokens))
             rest == MkDocFrom(full_text, Tail(tokens))
         IN IF idx >= 0
            THEN <<Extraction("letter", Head(tokens), CharInterval(idx, idx + 1))>> \o rest
            ELSE rest

\* The test's extraction function: the first occurrence of A, D and G.
MkDoc(full_text) == MkDocFrom(full_text, <<"A", "D", "G">>)

----------------------------------------------------------------------------
(* The merge engine: StreamExtractor._merge and the delta of push / flush. *)

\* overlaps with closed intervals: s1 <= e2 and s2 <= e1
overlapsClosed(a, b) ==
    IF a.char_interval = NoInterval \/ b.char_interval = NoInterval
    THEN FALSE
    ELSE a.char_interval[1] <= b.char_interval[2]
           /\ b.char_interval[1] <= a.char_interval[2]

\* overlaps with a missing interval or position overlapping everything
overlapsWhenMissing(a, b) ==
    IF a.char_interval = NoInterval \/ b.char_interval = NoInterval
    THEN TRUE
    ELSE IF \E p \in {a.char_interval[1], a.char_interval[2],
                      b.char_interval[1], b.char_interval[2]} : p = NonePos
    THEN TRUE
    ELSE a.char_interval[1] < b.char_interval[2]
           /\ b.char_interval[1] < a.char_interval[2]

\* _merge.overlaps
overlaps(a, b) ==
    IF a.char_interval = NoInterval \/ b.char_interval = NoInterval
    THEN FALSE
    ELSE LET s1 == a.char_interval[1]
             e1 == a.char_interval[2]
             s2 == b.char_interval[1]
             e2 == b.char_interval[2]
         IN IF s1 = NonePos \/ e1 = NonePos \/ s2 = NonePos \/ e2 = NonePos
            THEN FALSE
            ELSE s1 < e2 /\ s2 < e1

\* _merge.key, and the k of push and flush
key(e) ==
    LET ci == e.char_interval
        s == IF ci # NoInterval THEN ci[1] ELSE NonePos
        t == IF ci # NoInterval THEN ci[2] ELSE NonePos
    IN <<e.extraction_class, e.extraction_text, s, t>>

Keys(list) == { key(list[i]) : i \in 1..Len(list) }

RECURSIVE MergeLoop(_, _, _)
\* the for loop of _merge over what is left of new
MergeLoop(acc, existing, new) ==
    IF new = <<>> THEN acc
    ELSE LET ex == Head(new)
             k == key(ex)
         IN IF k \in existing
            THEN MergeLoop(acc, existing, Tail(new))
            ELSE IF \E i \in 1..Len(acc) : overlaps(ex, acc[i])
            THEN MergeLoop(acc, existing, Tail(new))
            ELSE MergeLoop(Append(acc, ex), existing \cup {k}, Tail(new))

RECURSIVE MergeKeysOnly(_, _)
\* _merge without the overlap test
MergeKeysOnly(first, new) ==
    IF new = <<>> THEN first
    ELSE IF key(Head(new)) \in Keys(first)
         THEN MergeKeysOnly(first, Tail(new))
         ELSE MergeKeysOnly(Append(first, Head(new)), Tail(new))

\* _merge with the arguments swapped: the spans of the later call win
MergeLaterWins(first, new) == MergeLoop(new, Keys(new), first)

\* StreamExtractor._merge(first, new)
Merge(first, new) == MergeLoop(first, Keys(first), new)

\* the delta with the test inverted: k(e) in prev_keys
DeltaInverted(prev_keys, new_list) ==
    SelectSeq(new_list, LAMBDA e : key(e) \in prev_keys)

\* the delta without the filter
DeltaAll(prev_keys, new_list) == new_list

\* delta = [e for e in new_list if k(e) not in prev_keys]
Delta(prev_keys, new_list) ==
    SelectSeq(new_list, LAMBDA e : key(e) \notin prev_keys)

\* the trigger with true division: sum(...) < self._max_char_buffer / 2
BelowTriggerExact(buf, threshold) == 2 * SumLen(buf) < threshold

\* the trigger at the whole threshold: sum(...) < self._max_char_buffer
BelowTriggerAtFull(buf, threshold) == SumLen(buf) < threshold

\* sum(len(c) for c in self._buffer) < self._max_char_buffer // 2
BelowTrigger(buf, threshold) == SumLen(buf) < (threshold \div 2)

----------------------------------------------------------------------------
(* The extraction function, lx.extract as _extract_now calls it. *)

Returned(list) == [raised |-> FALSE, extractions |-> list]
Raised == [raised |-> TRUE, extractions |-> <<>>]

\* The outcomes of one call on text: the test's function returns MkDoc(text),
\* and may raise instead where the provider can fail; the arbitrary one
\* returns any list of spans, or raises.
ExtractNow(text) ==
    IF extract = "mk_doc"
    THEN { Returned(MkDoc(text)) }
    ELSE IF extract = "mk_doc_or_raise"
    THEN { Returned(MkDoc(text)), Raised }
    ELSE { Returned(l) : l \in NewLists } \cup { Raised }

----------------------------------------------------------------------------
(* The extractor. *)

Before == [buffer |-> buffer, transcript |-> transcript, merged |-> merged]

\* What a call that made no extraction call leaves in last.
NoCall(op, chunk) ==
    [op |-> op, chunk |-> chunk, called |-> FALSE, raised |-> FALSE,
     full_text |-> <<>>, new_list |-> <<>>, ret |-> <<>>, before |-> Before,
     failed |-> last.failed]

\* What a call whose extraction call raised leaves in last.
Failed(op, chunk, text) ==
    [op |-> op, chunk |-> chunk, called |-> TRUE, raised |-> TRUE,
     full_text |-> text, new_list |-> <<>>, ret |-> <<>>, before |-> Before,
     failed |-> TRUE]

\* What a call whose extraction call returned leaves in last.
Done(op, chunk, text, new_list, delta) ==
    [op |-> op, chunk |-> chunk, called |-> TRUE, raised |-> FALSE,
     full_text |-> text, new_list |-> new_list, ret |-> delta, before |-> Before,
     failed |-> last.failed]

\* The caller's all_deltas.append, done for a non-empty delta only.
Yield(delta) == IF delta # <<>> THEN Append(all_deltas, delta) ELSE all_deltas

\* The extraction call with the buffer cleared on failure as well.
ExtractAndMergeClearing(op, chunk, buf, tr) ==
    /\ calls < MaxCalls
    /\ calls' = calls + 1
    /\ LET full_text == Join(tr)
       IN \E out \in ExtractNow(full_text) :
            /\ buffer' = <<>>
            /\ transcript' = tr
            /\ merged' = IF out.raised THEN merged ELSE Merge(merged, out.extractions)
            /\ all_deltas' = IF out.raised THEN all_deltas
                             ELSE Yield(Delta(Keys(merged), out.extractions))
            /\ last' = IF out.raised THEN Failed(op, chunk, full_text)
                       ELSE Done(op, chunk, full_text, out.extractions,
                                 Delta(Keys(merged), out.extractions))

\* The extraction call over the pending buffer: "\n".join(self._buffer)
ExtractAndMergePending(op, chunk, buf, tr) ==
    /\ calls < MaxCalls
    /\ calls' = calls + 1
    /\ LET full_text == Join(buf)
       IN \E out \in ExtractNow(full_text) :
            IF out.raised
            THEN /\ buffer' = buf
                 /\ transcript' = tr
                 /\ merged' = merged
                 /\ all_deltas' = all_deltas
                 /\ last' = Failed(op, chunk, full_text)
            ELSE LET new_list == out.extractions
                     prev_keys == Keys(merged)
                     delta == Delta(prev_keys, new_list)
                 IN /\ merged' = Merge(merged, new_list)
                    /\ buffer' = <<>>
                    /\ transcript' = tr
                    /\ all_deltas' = Yield(delta)
                    /\ last' = Done(op, chunk, full_text, new_list, delta)

\* The extraction call and what follows it, shared by push and flush
\* (processor.py 129-144 and 150-162); buf and tr are the buffer and the
\* transcript at the call.
ExtractAndMerge(op, chunk, buf, tr) ==
    /\ calls < MaxCalls
    /\ calls' = calls + 1
    /\ LET full_text == Join(tr)
       IN \E out \in ExtractNow(full_text) :
            IF out.raised
            THEN /\ buffer' = buf
                 /\ transcript' = tr
                 /\ merged' = merged
                 /\ all_deltas' = all_deltas
                 /\ last' = Failed(op, chunk, full_text)
            ELSE LET new_list == out.extractions
                     prev_keys == Keys(merged)
                     delta == Delta(prev_keys, new_list)
                 IN /\ merged' = Merge(merged, new_list)
                    /\ buffer' = <<>>
                    /\ transcript' = tr
                    /\ all_deltas' = Yield(delta)
                    /\ last' = Done(op, chunk, full_text, new_list, delta)

\* StreamExtractor.__init__
Construct(threshold, fn) ==
    /\ max_char_buffer = threshold
    /\ extract = fn
    /\ buffer = <<>>
    /\ transcript = <<>>
    /\ merged = <<>>
    /\ all_deltas = <<>>
    /\ calls = 0
    /\ last = [op |-> "init", chunk |-> <<>>, called |-> FALSE, raised |-> FALSE,
               full_text |-> <<>>, new_list |-> <<>>, ret |-> <<>>,
               before |-> [buffer |-> <<>>, transcript |-> <<>>, merged |-> <<>>],
               failed |-> FALSE]

\* StreamExtractor.push(chunk)
Push(chunk) ==
    /\ UNCHANGED <<max_char_buffer, extract>>
    /\ UNCHANGED <<wsvars, restvars>>
    /\ IF chunk = <<>>
       THEN /\ UNCHANGED <<buffer, transcript, merged, all_deltas, calls>>
            /\ last' = NoCall("push", chunk)
       ELSE /\ Len(transcript) < MaxPushes
            /\ LET buf == Append(buffer, chunk)
                   tr == Append(transcript, chunk)
               IN IF BelowTrigger(buf, max_char_buffer)
                  THEN /\ buffer' = buf
                       /\ transcript' = tr
                       /\ UNCHANGED <<merged, all_deltas, calls>>
                       /\ last' = NoCall("push", chunk)
                  ELSE ExtractAndMerge("push", chunk, buf, tr)

\* flush without the test of the pending buffer
FlushAlways ==
    /\ UNCHANGED <<max_char_buffer, extract>>
    /\ UNCHANGED <<wsvars, restvars>>
    /\ ExtractAndMerge("flush", <<>>, buffer, transcript)

\* StreamExtractor.flush()
Flush ==
    /\ UNCHANGED <<max_char_buffer, extract>>
    /\ UNCHANGED <<wsvars, restvars>>
    /\ IF buffer = <<>>
       THEN /\ UNCHANGED <<buffer, transcript, merged, all_deltas, calls>>
            /\ last' = NoCall("flush", <<>>)
       ELSE ExtractAndMerge("flush", <<>>, buffer, transcript)

\* No connection is open while the extractor is used as a library.
NoSessions ==
    /\ conns = {}
    /\ aggregate = <<>>
    /\ conversation_messages = <<>>
    /\ pc = <<>>
    /\ call_text = <<>>
    /\ doc = <<>>
    /\ sent = <<>>
    /\ received = <<>>

\* arun_async is not running: push and flush are called by the caller.
NoRun ==
    /\ aiter = <<>>
    /\ run_pc = "none"
    /\ run_chunk = <<>>

\* No request is posted to the endpoint.
NoRequests ==
    /\ rest_pc = "idle"
    /\ rest_messages = <<>>
    /\ rest_text = <<>>
    /\ rest_response = [status |-> 0]

Init == NoSessions /\ NoRun /\ NoRequests /\ \E t \in Thresholds : Construct(t, "any")

Pushed == IF extract = "mk_doc" THEN Chunks ELSE AnyChunks

Next ==
    \/ \E chunk \in Pushed : Push(chunk) /\ UNCHANGED runvars
    \/ Flush /\ UNCHANGED runvars

Spec == Init /\ [][Next]_vars

\* The values the constructor takes as they come: max_char_buffer is an int
\* that __init__ stores without looking at it.
AnyThresholds == {-1, 0, 1, 10}

InitAnyThreshold ==
    NoSessions /\ NoRun /\ NoRequests /\ \E t \in AnyThresholds : Construct(t, "any")

SpecAnyThreshold == InitAnyThreshold /\ [][Next]_vars

\* The spans _merge is called with directly: [0,5) and [5,8) are adjacent,
\* [4,6) overlaps both; one span has no char_interval and one a
\* char_interval whose positions are None.
MergeSpans ==
    { Extraction("k", "a", CharInterval(0, 5)),
      Extraction("k", "b", CharInterval(5, 8)),
      Extraction("k", "c", CharInterval(4, 6)),
      Extraction("k", "a", NoInterval),
      Extraction("k", "a", CharInterval(NonePos, NonePos)) }

\* StreamExtractor._merge(first, new), the static method, called on the list
\* it returned last.
MergeCall(new) ==
    /\ calls < MaxCalls
    /\ calls' = calls + 1
    /\ merged' = Merge(merged, new)
    /\ last' = [op |-> "merge", chunk |-> <<>>, called |-> FALSE,
                raised |-> FALSE, full_text |-> <<>>, new_list |-> new,
                ret |-> <<>>, before |-> Before, failed |-> last.failed]
    /\ UNCHANGED <<max_char_buffer, buffer, transcript, extract, all_deltas>>
    /\ UNCHANGED <<wsvars, runvars, restvars>>

NextMerge == \E new \in SeqsUpTo(MergeSpans, MaxNew) : MergeCall(new)

SpecMerge == Init /\ [][NextMerge]_vars

\* arun_async(aiter): `async for chunk in aiter` takes the next chunk and
\* submits push(chunk) to the executor.
RunNext ==
    /\ run_pc = "next"
    /\ aiter # <<>>
    /\ run_chunk' = Head(aiter)
    /\ aiter' = Tail(aiter)
    /\ run_pc' = "push"
    /\ UNCHANGED <<exvars, wsvars, restvars>>

\* The awaited push(chunk) completes; its deltas, if any, are yielded.  An
\* exception of the call ends the generator.
RunPush ==
    /\ run_pc = "push"
    /\ Push(run_chunk)
    /\ run_pc' = IF last'.raised THEN "raised" ELSE "next"
    /\ UNCHANGED <<aiter, run_chunk>>

\* the stream is exhausted and the generator ends without the flush
RunExhaustedNoFlush ==
    /\ run_pc = "next"
    /\ aiter = <<>>
    /\ run_pc' = "done"
    /\ UNCHANGED <<aiter, run_chunk, exvars, wsvars, restvars>>

\* The stream is exhausted: flush is submitted to the executor.
RunExhausted ==
    /\ run_pc = "next"
    /\ aiter = <<>>
    /\ run_pc' = "flush"
    /\ UNCHANGED <<aiter, run_chunk, exvars, wsvars, restvars>>

\* The awaited flush() completes; its delta, if any, is yielded and the
\* generator ends.
RunFlush ==
    /\ run_pc = "flush"
    /\ Flush
    /\ run_pc' = IF last'.raised THEN "raised" ELSE "done"
    /\ UNCHANGED <<aiter, run_chunk>>

NextRun == RunNext \/ RunPush \/ RunExhausted \/ RunFlush

\* The thresholds of the extractors arun_async is run on: 10 as in the test
\* and the default 800.
RunThresholds == {10, 800}

\* arun_async called on a fresh extractor with a finite stream.
InitRun ==
    /\ NoSessions /\ NoRequests
    /\ \E t \in RunThresholds : Construct(t, "mk_doc_or_raise")
    /\ aiter \in SeqsUpTo(Chunks, MaxPushes)
    /\ run_pc = "next"
    /\ run_chunk = <<>>

\* The event loop runs the coroutine whenever it can take a step, and the
\* executor completes every call it was given.
SpecRun == InitRun /\ [][NextRun]_vars /\ WF_vars(NextRun)

\* The extractor of the test: lx.extract monkeypatched to _mk_doc.
InitMkDoc == NoSessions /\ NoRun /\ NoRequests /\ \E t \in Thresholds : Construct(t, "mk_doc")

SpecMkDoc == InitMkDoc /\ [][Next]_vars

----------------------------------------------------------------------------
(* The sessions of the WebSocket server: ws_endpoint, one handler per       *)
(* connection.                                                              *)

\* data.get(k) of a key the frame does not carry.
Missing == <<"None">>

Str_user == <<"u", "s", "e", "r">>
Str_bot == <<"b", "o", "t">>

\* A frame as json.loads sees it: text that is no JSON, JSON that is no
\* object, or an object with the keys eot, type, role and content.
Frame(json, eot, type, role, content) ==
    [json |-> json, eot |-> eot, type |-> type, role |-> role, content |-> content]

NotJson == Frame("invalid", FALSE, "", Missing, Missing)
JsonArray == Frame("array", FALSE, "", Missing, Missing)
Object(eot, type, role, content) == Frame("object", eot, type, role, content)

\* The frames a client sends: not a json string, [], {"eot": true},
\* {"type": "eot", "content": "a"}, {"content": " "}, {}, {"content": "a"},
\* {"role": " ", "content": " b "}, {"role": "bot", "content": "a"}.
Frames ==
    { NotJson,
      JsonArray,
      Object(TRUE, "", Missing, Missing),
      Object(FALSE, "eot", Missing, <<"a">>),
      Object(FALSE, "", Missing, <<" ">>),
      Object(FALSE, "", Missing, Missing),
      Object(FALSE, "", Missing, <<"a">>),
      Object(FALSE, "", <<" ">>, <<" ", "b", " ">>),
      Object(FALSE, "", Str_bot, <<"a">>) }

\* The frames sent when two connections are open.
FewFrames ==
    { Object(TRUE, "", Missing, Missing),
      Object(FALSE, "", Str_bot, <<" ", "b", " ">>) }

\* The span lists the extraction call of a session may return.
Docs ==
    { << Extraction("token", "a", CharInterval(0, 1)) >>,
      << Extraction("token", "a", CharInterval(0, 1)),
         Extraction("token", "b", NoInterval) >> }

\* The one returned when two connections are open.
FewDocs == { << Extraction("token", "a", CharInterval(0, 1)) >> }

RECURSIVE LStrip(_)
LStrip(str) ==
    IF str # <<>> /\ Head(str) = " " THEN LStrip(Tail(str)) ELSE str

RECURSIVE RStrip(_)
RStrip(str) ==
    IF str # <<>> /\ str[Len(str)] = " "
    THEN RStrip(SubSeq(str, 1, Len(str) - 1))
    ELSE str

\* strip without effect
StripNothing(str) == str

\* str.strip()
Strip(str) == RStrip(LStrip(str))

\* data.get(k) or default
GetOr(value, default) ==
    IF value = Missing \/ value = <<>> THEN default ELSE value

RECURSIVE Lines(_)
\* the lines of flatten_chat_messages
Lines(messages) ==
    IF messages = <<>> THEN <<>>
    ELSE LET m == Head(messages)
             role == GetOr(m.role, Str_user)
             content == Strip(GetOr(m.content, <<>>))
         IN IF content = <<>>
            THEN Lines(Tail(messages))
            ELSE << role \o <<":", " ">> \o content >> \o Lines(Tail(messages))

\* the flattening of the last message alone
flatten_last_message(messages) ==
    IF messages = <<>> THEN <<>>
    ELSE Join(Lines(<< messages[Len(messages)] >>))

\* flatten_chat_messages(messages)
flatten_chat_messages(messages) == Join(Lines(messages))

\* The frames the handler sends.
Out(type, message, txt, extractions) ==
    [type |-> type, message |-> message, text |-> txt, extractions |-> extractions]

Info == Out("info", "connected", <<>>, <<>>)
InvalidJson == Out("error", "invalid json", <<>>, <<>>)
EotAck == Out("eot_ack", "", <<>>, <<>>)
EmptyContent == Out("warn", "empty content", <<>>, <<>>)
Processing == Out("status", "processing", <<>>, <<>>)
ModelError == Out("error", "boom", <<>>, <<>>)

\* One entry of span_dicts.
SpanDict(ext) ==
    LET ci == ext.char_interval
    IN [extraction_class |-> ext.extraction_class,
        extraction_text |-> ext.extraction_text,
        char_start |-> IF ci # NoInterval THEN ci[1] ELSE NonePos,
        char_end |-> IF ci # NoInterval THEN ci[2] ELSE NonePos]

SpanDicts(extractions) ==
    [i \in 1..Len(extractions) |-> SpanDict(extractions[i])]

\* The result frame of a document.
ResultOf(agg, d) ==
    Out(IF agg THEN "aggregate_result" ELSE "result", "", d.text,
        SpanDicts(d.extractions))

Send(c, frame) == [sent EXCEPT ![c] = Append(@, frame)]

\* conversation_messages after a reset, kept whatever the mode
KeptOnReset(agg, messages) == messages

\* conversation_messages after a reset: cleared in aggregate mode
OnReset(agg, messages) == IF agg THEN <<>> ELSE messages

\* conversation_messages with the turn appended for every connection
AppendTurnToAll(c, role, content) ==
    [d \in conns |->
        Append(conversation_messages[d], [role |-> role, content |-> content])]

\* conversation_messages.append({"role": role, "content": content})
AppendTurn(c, role, content) ==
    [conversation_messages EXCEPT
        ![c] = Append(@, [role |-> role, content |-> content])]

\* the text of the call, flattened in both modes
FlattenedText(agg, messages, content) == flatten_chat_messages(messages)

\* The text passed to _extract_single_message: messages is the history with
\* the turn appended.
TextOfCall(agg, messages, content) ==
    IF agg THEN flatten_chat_messages(messages) ELSE content

\* the extraction call made on the event loop's thread: no handler is
\* resumed while a call runs
ResumedWhenNoCallRuns(c) ==
    pc[c] = "receive" /\ \A d \in conns : pc[d] # "extract"

\* The handler is suspended at `await websocket.receive_text()` and the
\* event loop resumes it with a frame.  The extraction calls run on the
\* executor's threads (run_in_executor), so a call of another handler does
\* not hold the loop; the handler's own call is awaited before the loop
\* comes back to receive_text.
Resumed(c) == pc[c] = "receive"

\* the reset signal looked at after the content: an end-of-turn frame with
\* content is a turn
IsEotAfterContent(data) ==
    (data.eot \/ data.type = "eot")
      /\ (data.content = Missing
            \/ \A i \in 1..Len(data.content) : data.content[i] = " ")

\* data.get("eot") or data.get("type") == "eot"
IsEot(data) == data.eot \/ data.type = "eot"

\* websocket.accept() and the info frame
Accept(c) ==
    /\ pc[c] = "connecting"
    /\ pc' = [pc EXCEPT ![c] = "receive"]
    /\ sent' = Send(c, Info)
    /\ UNCHANGED <<conns, aggregate, conversation_messages, call_text, doc, received>>

\* One pass of the while loop, from receive_text up to `continue` or up to
\* the extraction call.
Receive(c, data) ==
    /\ Resumed(c)
    /\ received' = [received EXCEPT ![c] = Append(@, data)]
    /\ UNCHANGED <<conns, aggregate, doc>>
    /\ IF data.json = "invalid"
       THEN /\ sent' = Send(c, InvalidJson)
            /\ UNCHANGED <<conversation_messages, pc, call_text>>
       ELSE IF data.json # "object"
       THEN \* data.get raises AttributeError, which nothing catches
            /\ pc' = [pc EXCEPT ![c] = "crashed"]
            /\ UNCHANGED <<conversation_messages, sent, call_text>>
       ELSE IF IsEot(data)
       THEN /\ conversation_messages' =
                 [conversation_messages EXCEPT ![c] = OnReset(aggregate[c], @)]
            /\ sent' = Send(c, EotAck)
            /\ UNCHANGED <<pc, call_text>>
       ELSE LET role == GetOr(Strip(GetOr(data.role, Str_user)), Str_user)
                content == Strip(GetOr(data.content, <<>>))
            IN IF content = <<>>
               THEN /\ sent' = Send(c, EmptyContent)
                    /\ UNCHANGED <<conversation_messages, pc, call_text>>
               ELSE /\ sent' = Send(c, Processing)
                    /\ conversation_messages' =
                         IF aggregate[c] THEN AppendTurn(c, role, content)
                         ELSE conversation_messages
                    /\ call_text' =
                         [call_text EXCEPT
                            ![c] = TextOfCall(aggregate[c],
                                              conversation_messages'[c], content)]
                    /\ pc' = [pc EXCEPT ![c] = "extract"]

\* _extract_single_message returns, and the result frame is sent.
ExtractReturns(c, extractions) ==
    /\ pc[c] = "extract"
    /\ doc' = [doc EXCEPT ![c] = [text |-> call_text[c], extractions |-> extractions]]
    /\ sent' = Send(c, ResultOf(aggregate[c], doc'[c]))
    /\ pc' = [pc EXCEPT ![c] = "receive"]
    /\ UNCHANGED <<conns, aggregate, conversation_messages, call_text, received>>

\* the extraction call raises and nothing catches it
ExtractRaisesUncaught(c) ==
    /\ pc[c] = "extract"
    /\ pc' = [pc EXCEPT ![c] = "crashed"]
    /\ UNCHANGED <<conns, aggregate, conversation_messages, call_text, doc,
                   sent, received>>

\* the failed turn taken back out of the history by the handler of the error
ExtractRaisesDroppingTurn(c) ==
    /\ pc[c] = "extract"
    /\ sent' = Send(c, ModelError)
    /\ pc' = [pc EXCEPT ![c] = "receive"]
    /\ conversation_messages' =
         [conversation_messages EXCEPT
            ![c] = IF @ = <<>> THEN @ ELSE SubSeq(@, 1, Len(@) - 1)]
    /\ UNCHANGED <<conns, aggregate, call_text, doc, received>>

\* _extract_single_message raises: except Exception sends the error frame.
ExtractRaises(c) ==
    /\ pc[c] = "extract"
    /\ sent' = Send(c, ModelError)
    /\ pc' = [pc EXCEPT ![c] = "receive"]
    /\ UNCHANGED <<conns, aggregate, conversation_messages, call_text, doc, received>>

\* receive_text raises WebSocketDisconnect: the handler returns.
Disconnect(c) ==
    /\ pc[c] = "receive"
    /\ pc' = [pc EXCEPT ![c] = "closed"]
    /\ UNCHANGED <<conns, aggregate, conversation_messages, call_text, doc,
                   sent, received>>

\* The server with the connections cs, each with its aggregate parameter.
Serve(cs) ==
    /\ conns = cs
    /\ aggregate \in [cs -> BOOLEAN]
    /\ conversation_messages = [c \in cs |-> <<>>]
    /\ pc = [c \in cs |-> "connecting"]
    /\ call_text = [c \in cs |-> <<>>]
    /\ doc = [c \in cs |-> [text |-> <<>>, extractions |-> <<>>]]
    /\ sent = [c \in cs |-> <<>>]
    /\ received = [c \in cs |-> <<>>]

FramesSent == IF Cardinality(conns) = 1 THEN Frames ELSE FewFrames

DocsReturned == IF Cardinality(conns) = 1 THEN Docs ELSE FewDocs

NextWs ==
    \/ \E c \in conns : Accept(c) /\ UNCHANGED <<exvars, runvars, restvars>>
    \/ \E c \in conns : \E data \in FramesSent :
         /\ Len(received[c]) < MaxFrames
         /\ Receive(c, data)
         /\ UNCHANGED <<exvars, runvars, restvars>>
    \/ \E c \in conns : \E extractions \in DocsReturned :
         ExtractReturns(c, extractions) /\ UNCHANGED <<exvars, runvars, restvars>>
    \/ \E c \in conns : ExtractRaises(c) /\ UNCHANGED <<exvars, runvars, restvars>>
    \/ \E c \in conns : Disconnect(c) /\ UNCHANGED <<exvars, runvars, restvars>>

\* One connection.
InitWs == Construct(800, "any") /\ NoRun /\ NoRequests /\ Serve({1})

SpecWs == InitWs /\ [][NextWs]_vars

\* Two connections served at once.
InitWsTwo == Construct(800, "any") /\ NoRun /\ NoRequests /\ Serve({1, 2})

SpecWsTwo == InitWsTwo /\ [][NextWs]_vars

----------------------------------------------------------------------------
(* The request-response endpoint: extract_endpoint of rest_api.             *)

\* Message(role, content): both are strings, as pydantic validates them.
Message(role, content) == [role |-> role, content |-> content]

\* The messages a client posts: an empty role, a role given, a blank role,
\* a blank content.
Messages ==
    { Message(<<>>, <<"a">>),
      Message(Str_bot, <<" ", "b", " ">>),
      Message(<<" ">>, <<"a">>),
      Message(Str_user, <<" ">>) }

Payloads == SeqsUpTo(Messages, MaxMessages)

\* HTTPException(status_code, detail)
HTTPException(status_code, detail) == [status |-> status_code, detail |-> detail]

\* ExtractResponse(text, extractions), sent with status 200
ExtractResponse(txt, spans) ==
    [status |-> 200, text |-> txt, extractions |-> spans]

\* The endpoint up to the call of lx.extract.
Post(messages) ==
    /\ rest_pc = "idle"
    /\ rest_messages' = messages
    /\ IF messages = <<>>
       THEN /\ rest_response' = HTTPException(400, "messages must be provided")
            /\ UNCHANGED <<rest_pc, rest_text>>
       ELSE /\ rest_text' = flatten_chat_messages(messages)
            /\ rest_pc' = "extract"
            /\ UNCHANGED rest_response

\* lx.extract returns: the spans of the result are mapped and returned.
RestReturns(extractions) ==
    /\ rest_pc = "extract"
    /\ rest_response' = ExtractResponse(rest_text, SpanDicts(extractions))
    /\ rest_pc' = "idle"
    /\ UNCHANGED <<rest_messages, rest_text>>

\* lx.extract raises: except Exception answers 500 with str(e).
RestRaises ==
    /\ rest_pc = "extract"
    /\ rest_response' = HTTPException(500, "boom")
    /\ rest_pc' = "idle"
    /\ UNCHANGED <<rest_messages, rest_text>>

NextRest ==
    \/ \E messages \in Payloads :
         Post(messages) /\ UNCHANGED <<exvars, wsvars, runvars>>
    \/ \E extractions \in Docs :
         RestReturns(extractions) /\ UNCHANGED <<exvars, wsvars, runvars>>
    \/ RestRaises /\ UNCHANGED <<exvars, wsvars, runvars>>

InitRest == Construct(800, "any") /\ NoSessions /\ NoRun /\ NoRequests

SpecRest == InitRest /\ [][NextRest]_vars

----------------------------------------------------------------------------
(* What the properties are stated with: the spans handed to the caller, and *)
(* the identity and overlap rules as the specification words them.          *)

RECURSIVE Flatten(_)
Flatten(lists) ==
    IF lists = <<>> THEN <<>> ELSE Head(lists) \o Flatten(Tail(lists))

\* Every span emitted so far, over all deltas, in order.
Emitted == Flatten(all_deltas)

Elems(list) == { list[i] : i \in 1..Len(list) }

IsPrefix(p, q) == Len(p) <= Len(q) /\ SubSeq(q, 1, Len(p)) = p

HasInterval(e) ==
    /\ e.char_interval # NoInterval
    /\ e.char_interval[1] # NonePos
    /\ e.char_interval[2] # NonePos

\* Identity key (class, text, start, end), a missing interval counting as
\* (None, None).
SameIdentity(a, b) ==
    /\ a.extraction_class = b.extraction_class
    /\ a.extraction_text = b.extraction_text
    /\ (IF a.char_interval = NoInterval THEN <<NonePos, NonePos>> ELSE a.char_interval)
         = (IF b.char_interval = NoInterval THEN <<NonePos, NonePos>> ELSE b.char_interval)

\* [s1,e1) and [s2,e2) overlap iff s1 < e2 and s2 < e1; a missing interval
\* overlaps nothing.
OverlapRule(a, b) ==
    /\ HasInterval(a)
    /\ HasInterval(b)
    /\ a.char_interval[1] < b.char_interval[2]
    /\ b.char_interval[1] < a.char_interval[2]

\* The last call made an extraction call that returned.
Extracted == last.called /\ ~last.raised

\* The spans the last call appended to the Merged Set.
Appended == SubSeq(merged, Len(last.before.merged) + 1, Len(merged))

----------------------------------------------------------------------------
\* C1: the spans a push or flush returns after an extraction call are exactly
\* the spans that call appended to the Merged Set, in the same order.
C1_ReturnedIsAppended == Extracted => last.ret = Appended

\* C2: the spans emitted over all deltas never contain two spans with the
\* same identity key.
C2_NoDuplicateIdentity ==
    \A i, j \in 1..Len(Emitted) :
        i < j => ~SameIdentity(Emitted[i], Emitted[j])

\* C3: no two spans ever emitted have overlapping intervals.
C3_NoEmittedOverlap ==
    \A i, j \in 1..Len(Emitted) :
        i < j => ~OverlapRule(Emitted[i], Emitted[j])

\* C4: the Merged Set never holds two spans with the same identity key, nor
\* two spans whose intervals overlap.
C4_MergedSetInvariant ==
    \A i, j \in 1..Len(merged) :
        i < j => /\ ~SameIdentity(merged[i], merged[j])
                 /\ ~OverlapRule(merged[i], merged[j])

\* An extraction returned candidates that repeat or overlap each other or
\* the Merged Set, and the Merged Set holds two spans.
C4_Witness ==
    /\ Extracted
    /\ Len(merged) = 2
    /\ \E c \in Elems(last.new_list) : \E m \in Elems(merged) :
         c # m /\ OverlapRule(c, m)
    /\ \E i, j \in 1..Len(last.new_list) :
         i < j /\ SameIdentity(last.new_list[i], last.new_list[j])

RECURSIVE PickFrom(_, _, _)
\* The elements of list at the indices of idx that are >= i, in order.
PickFrom(list, idx, i) ==
    IF i > Len(list) THEN <<>>
    ELSE (IF i \in idx THEN <<list[i]>> ELSE <<>>) \o PickFrom(list, idx, i + 1)

\* C5: merge(accepted, candidates) is accepted, in order, followed by exactly
\* the candidates, in input order, whose identity key is neither in accepted
\* nor among the candidates accepted before them in this call, and which
\* overlap no span of accepted nor a candidate accepted before them.
C5_MergeContract ==
    Extracted =>
      LET accepted == last.before.merged
          candidates == last.new_list
          n == Len(candidates)
      IN /\ IsPrefix(accepted, merged)
         /\ \E Acc \in SUBSET (1..n) :
              /\ \A i \in 1..n :
                   i \in Acc <=>
                     /\ \A m \in Elems(accepted) :
                          ~SameIdentity(candidates[i], m) /\ ~OverlapRule(candidates[i], m)
                     /\ \A j \in Acc :
                          j < i => /\ ~SameIdentity(candidates[i], candidates[j])
                                   /\ ~OverlapRule(candidates[i], candidates[j])
              /\ Appended = PickFrom(candidates, Acc, 1)

\* A merge into a non-empty Merged Set that rejected the first of two
\* candidates and accepted the second, which is adjacent to an accepted span.
C5_Witness ==
    /\ Extracted
    /\ last.before.merged # <<>>
    /\ Len(last.new_list) = 2
    /\ Appended = <<last.new_list[2]>>
    /\ \E m \in Elems(last.before.merged) :
         m.char_interval[2] = last.new_list[2].char_interval[1]

\* The pending size a push of a non-empty fragment compares with the bound.
PendingWith(buf, chunk) == SumLen(buf) + Len(chunk)

\* A step whose extraction call raised leaves the transcript and the pending
\* buffer as they were at the call, and the Merged Set and the deltas alone.
C6_FailureKeepsState ==
    last'.raised =>
      /\ last'.called
      /\ merged' = merged
      /\ all_deltas' = all_deltas
      /\ transcript' = IF last'.op = "push" THEN Append(transcript, last'.chunk)
                       ELSE transcript
      /\ buffer' = IF last'.op = "push" THEN Append(buffer, last'.chunk)
                   ELSE buffer
      /\ last'.full_text = Join(transcript')

C7_EmptyFlushNoOp ==
    [][/\ Extracted' => buffer' = <<>>
       /\ (last'.op = "flush" /\ buffer = <<>>)
          => /\ ~last'.called
             /\ last'.ret = <<>>
             /\ UNCHANGED <<max_char_buffer, buffer, transcript, merged,
                            all_deltas, calls>>]_vars

\* A flush that did nothing, right after spans were accepted.
C7_Witness ==
    /\ last.op = "flush"
    /\ ~last.called
    /\ last.before.buffer = <<>>
    /\ merged # <<>>
    /\ transcript # <<>>

\* The pending size the last push compared with the bound.
LastPending == PendingWith(last.before.buffer, last.chunk)

\* What C8 says of a push, reached telling whether the pending size reached
\* the bound: an empty fragment changes nothing; a non-empty one makes the
\* extraction call iff the bound was reached, and is retained when not.
PushRule(reached) ==
    last.op = "push" =>
      IF last.chunk = <<>>
      THEN /\ ~last.called
           /\ last.ret = <<>>
           /\ Before = last.before
      ELSE /\ last.called <=> reached
           /\ ~last.called =>
                /\ last.ret = <<>>
                /\ buffer = Append(last.before.buffer, last.chunk)
                /\ transcript = Append(last.before.transcript, last.chunk)
                /\ merged = last.before.merged

\* C8 as claimed: the bound is buffer_threshold / 2, odd thresholds included.
C8_TriggerAtHalf ==
    PushRule(2 * LastPending >= max_char_buffer)

\* C8 as amended: the bound is buffer_threshold / 2 rounded down.
C8_TriggerAtFloorHalf ==
    PushRule(2 * LastPending + 1 >= max_char_buffer)

\* A push that made the extraction call with 3 pending and threshold 7.
C8_Witness ==
    /\ last.op = "push"
    /\ last.called
    /\ max_char_buffer = 7
    /\ LastPending = 3

\* No span of the last extraction result overlaps or key-matches a span that
\* was in the Merged Set at the call.
AllNew ==
    \A s \in Elems(last.new_list) : \A m \in Elems(last.before.merged) :
        ~SameIdentity(s, m) /\ ~OverlapRule(s, m)

\* C9: when no span of the extraction result overlaps or key-matches a span
\* already in the Merged Set, every span of the result is in the delta.
C9_DeltaComplete ==
    (Extracted /\ AllNew) => Elems(last.new_list) \subseteq Elems(last.ret)

\* Such a result, returned when the Merged Set was not empty.
C9_Witness ==
    /\ Extracted
    /\ AllNew
    /\ last.before.merged # <<>>
    /\ last.new_list # <<>>

\* The text of the last extraction call that returned before the last call:
\* the transcript without the fragments that were pending.
CoveredBefore ==
    Join(SubSeq(last.before.transcript, 1,
                Len(last.before.transcript) - Len(last.before.buffer)))

DeltaTexts ==
    [i \in 1..Len(all_deltas) |->
        [j \in 1..Len(all_deltas[i]) |-> all_deltas[i][j].extraction_text]]

\* C10: with the test's extraction function (deterministic, monotone, spans
\* pairwise disjoint) no span is emitted twice, every span the last
\* extraction yielded has been emitted, the delta of a call is the spans its
\* transcript yields and the transcript of the call before did not, and
\* "ABC", "DEF", "GHI" with threshold 10 give [A, D] at the second push and
\* [G] at the flush.
C10_EachSpanOnce ==
    /\ \A i, j \in 1..Len(Emitted) : i < j => ~SameIdentity(Emitted[i], Emitted[j])
    /\ Extracted =>
         /\ Elems(Emitted) = Elems(MkDoc(last.full_text))
         /\ last.ret = SelectSeq(MkDoc(last.full_text),
                                 LAMBDA e : e \notin Elems(MkDoc(CoveredBefore)))
    /\ ( /\ max_char_buffer = 10
         /\ transcript = << <<"A", "B", "C">>, <<"D", "E", "F">>, <<"G", "H", "I">> >>
         /\ last.op = "flush"
         /\ last.called
         /\ last.before.buffer = << <<"G", "H", "I">> >>
         /\ calls = 2 )
       => DeltaTexts = << <<"A", "D">>, <<"G">> >>

\* The scenario of the test, run to its end.
C10_Witness ==
    /\ max_char_buffer = 10
    /\ transcript = << <<"A", "B", "C">>, <<"D", "E", "F">>, <<"G", "H", "I">> >>
    /\ last.op = "flush"
    /\ last.called
    /\ calls = 2
    /\ DeltaTexts = << <<"A", "D">>, <<"G">> >>

\* C11: "A" pushed twice with threshold 10 and then a flush give the delta
\* sequence [A] then []: the test's all_deltas == [["A"], []].
C11_RepeatedChunkDeltas ==
    ( /\ max_char_buffer = 10
      /\ transcript = << <<"A">>, <<"A">> >>
      /\ last.op = "flush"
      /\ last.before.buffer # <<>> )
    => DeltaTexts = << <<"A">>, <<>> >>

----------------------------------------------------------------------------
(* What the properties of the sessions are stated with: the kinds of frame *)
(* and the turn history as the specification words them, read from the     *)
(* frames a connection received.                                           *)

Last(list) == list[Len(list)]

Blank(str) == \A i \in 1..Len(str) : str[i] = " "

\* str without its leading and trailing blanks.
Trimmed(str) ==
    IF Blank(str) THEN <<>>
    ELSE LET lo == CHOOSE i \in 1..Len(str) :
                     str[i] # " " /\ \A j \in 1..(i - 1) : str[j] = " "
             hi == CHOOSE i \in 1..Len(str) :
                     str[i] # " " /\ \A j \in (i + 1)..Len(str) : str[j] = " "
         IN SubSeq(str, lo, hi)

IsMalformed(f) == f.json # "object"

IsReset(f) == f.json = "object" /\ (f.eot \/ f.type = "eot")

ContentOf(f) == IF f.content = Missing THEN <<>> ELSE Trimmed(f.content)

RoleOf(f) ==
    IF f.role = Missing \/ Blank(f.role) THEN Str_user ELSE Trimmed(f.role)

IsEmptyContent(f) == f.json = "object" /\ ~IsReset(f) /\ ContentOf(f) = <<>>

IsTurn(f) == f.json = "object" /\ ~IsReset(f) /\ ContentOf(f) # <<>>

\* The frames received after the last reset.
SinceReset(frames) ==
    LET resets == { i \in 1..Len(frames) : IsReset(frames[i]) }
    IN IF resets = {} THEN frames
       ELSE SubSeq(frames,
                   (CHOOSE i \in resets : \A j \in resets : j <= i) + 1,
                   Len(frames))

\* The normal turns received since the last reset (or the open).
TurnsSinceReset(frames) == SelectSeq(SinceReset(frames), IsTurn)

\* "<role>: <content>" of each of them, joined by the line separator.
TextOfTurns(turns) ==
    Join([i \in 1..Len(turns) |->
            RoleOf(turns[i]) \o <<":", " ">> \o ContentOf(turns[i])])

\* The number of lines of a non-empty text.
LineCount(str) == Cardinality({ i \in 1..Len(str) : str[i] = "\n" }) + 1

\* The connection read a frame in this step, and which.
Reads(c) == received'[c] # received[c]
FrameRead(c) == Last(received'[c])

\* The connection sent exactly this one frame in this step.
SendsOnly(c, frame) == sent'[c] = Append(sent[c], frame)

\* Two entries of a result's span list: same identity key, overlap.
SameSpanKey(a, b) ==
    /\ a.extraction_class = b.extraction_class
    /\ a.extraction_text = b.extraction_text
    /\ a.char_start = b.char_start
    /\ a.char_end = b.char_end

SpansOverlap(a, b) ==
    /\ a.char_start # NonePos /\ a.char_end # NonePos
    /\ b.char_start # NonePos /\ b.char_end # NonePos
    /\ a.char_start < b.char_end
    /\ b.char_start < a.char_end

\* The span list of a result frame is the whole list the call returned.
CarriesAll(frame, extractions) ==
    /\ Len(frame.extractions) = Len(extractions)
    /\ \A i \in 1..Len(extractions) :
         /\ frame.extractions[i].extraction_class = extractions[i].extraction_class
         /\ frame.extractions[i].extraction_text = extractions[i].extraction_text
         /\ <<frame.extractions[i].char_start, frame.extractions[i].char_end>>
              = (IF extractions[i].char_interval = NoInterval
                 THEN <<NonePos, NonePos>> ELSE extractions[i].char_interval)

----------------------------------------------------------------------------
\* C12: a reset frame is answered by one acknowledgment and leaves the
\* connection reading; in aggregate mode it clears the turn history, so the
\* text of a later call has one line per turn received since the last reset
\* and the result carries every span of the call, also those reported before
\* the reset; in single-shot mode it changes no state.
C12_Reset ==
    [][\A c \in conns :
         /\ (Reads(c) /\ IsReset(FrameRead(c))) =>
              /\ SendsOnly(c, EotAck)
              /\ pc'[c] = "receive"
              /\ call_text'[c] = call_text[c]
              /\ doc'[c] = doc[c]
              /\ conversation_messages'[c] =
                   IF aggregate[c] THEN <<>> ELSE conversation_messages[c]
         /\ (aggregate[c] /\ pc'[c] = "extract") =>
              LineCount(call_text'[c]) = Len(TurnsSinceReset(received'[c]))
         /\ (pc[c] = "extract" /\ Last(sent'[c]).type = "aggregate_result") =>
              CarriesAll(Last(sent'[c]), doc'[c].extractions)]_vars

\* A span reported before a reset is reported again after it.
C12_Witness ==
    \E c \in conns : \E i, j, k \in 1..Len(sent[c]) :
        /\ i < j /\ j < k
        /\ sent[c][i].type = "aggregate_result"
        /\ sent[c][j].type = "eot_ack"
        /\ sent[c][k].type = "aggregate_result"
        /\ LineCount(sent[c][k].text) = 1
        /\ \E a \in Elems(sent[c][i].extractions) :
             \E b \in Elems(sent[c][k].extractions) : SameSpanKey(a, b)

\* Two aggregate_result frames of one connection with no reset between them.
SameConversation(c, i, j) ==
    /\ i < j
    /\ sent[c][i].type = "aggregate_result"
    /\ sent[c][j].type = "aggregate_result"
    /\ \A m \in i..j : sent[c][m].type # "eot_ack"

\* C13: between two resets no span identity key is in two aggregate_result
\* frames, and no reported span overlaps a span reported by an earlier turn.
C13_AggregateResultIsDelta ==
    \A c \in conns : \A i, j \in 1..Len(sent[c]) :
        SameConversation(c, i, j) =>
          \A a \in Elems(sent[c][i].extractions) :
            \A b \in Elems(sent[c][j].extractions) :
              ~SameSpanKey(a, b) /\ ~SpansOverlap(a, b)

\* C14: a call that raises is answered by one error frame with the failure
\* message, and the handler goes back to reading frames with its history as
\* it was; a call that returns is answered by one result frame of the mode.
C14_FailureKeepsSession ==
    [][\A c \in conns :
         (pc[c] = "extract" /\ <<pc[c], sent[c]>>' # <<pc[c], sent[c]>>) =>
           /\ pc'[c] = "receive"
           /\ conversation_messages'[c] = conversation_messages[c]
           /\ Len(sent'[c]) = Len(sent[c]) + 1
           /\ SubSeq(sent'[c], 1, Len(sent[c])) = sent[c]
           /\ \/ Last(sent'[c]) = ModelError
              \/ Last(sent'[c]).type =
                   (IF aggregate[c] THEN "aggregate_result" ELSE "result")]_vars

\* The first call raised and the second returned.
C14_Witness ==
    \E c \in conns :
        /\ Len(sent[c]) = 5
        /\ sent[c][3] = ModelError
        /\ sent[c][4].type = "status"
        /\ sent[c][5].type \in {"result", "aggregate_result"}
        /\ pc[c] = "receive"

\* C15: a frame that cannot be parsed into the expected structure (no JSON,
\* or JSON that is no object) is answered by exactly one invalid-payload
\* frame, changes no state, and the handler reads the next frame.
C15_MalformedIsRecovered ==
    [][\A c \in conns :
         (Reads(c) /\ IsMalformed(FrameRead(c))) =>
           /\ SendsOnly(c, InvalidJson)
           /\ pc'[c] = "receive"
           /\ conversation_messages'[c] = conversation_messages[c]
           /\ call_text'[c] = call_text[c]]_vars

\* C16: a frame whose content is absent or blank is answered by exactly one
\* "empty content" warning, no processing frame and no extraction call, and
\* leaves the turn history as it was, in both modes.
C16_EmptyContentWarns ==
    [][\A c \in conns :
         (Reads(c) /\ IsEmptyContent(FrameRead(c))) =>
           /\ SendsOnly(c, EmptyContent)
           /\ pc'[c] = "receive"
           /\ conversation_messages'[c] = conversation_messages[c]
           /\ call_text'[c] = call_text[c]]_vars

\* A blank content and an absent one were each answered by a warning, in
\* aggregate mode with a turn in the history.
C16_Witness ==
    \E c \in conns :
        /\ aggregate[c]
        /\ conversation_messages[c] # <<>>
        /\ Len(received[c]) = 3
        /\ received[c][2].content = <<" ">>
        /\ received[c][3].content = Missing
        /\ ~IsReset(received[c][3])
        /\ IsEmptyContent(received[c][3])
        /\ Last(sent[c]) = EmptyContent
        /\ sent[c][Len(sent[c]) - 1] = EmptyContent

\* The text of the call of the n-th received frame, a normal turn.
TextOfTurn(agg, frames, n) ==
    IF agg THEN TextOfTurns(TurnsSinceReset(SubSeq(frames, 1, n)))
    ELSE ContentOf(frames[n])

\* The one outcome of a frame that is no normal turn.
OutcomeOf(f) ==
    IF IsMalformed(f) THEN InvalidJson
    ELSE IF IsReset(f) THEN EotAck ELSE EmptyContent

\* outs are the outcomes of the frames from the n-th on, in arrival order:
\* one outcome for a malformed, reset or empty-content frame; for a normal
\* turn a processing outcome and then one result of the mode, with the text
\* of the turn, or one error; only the call of the last frame may be in
\* flight, with its processing outcome sent.
RECURSIVE OutcomesFollow(_, _, _, _, _)
OutcomesFollow(outs, frames, n, agg, inflight) ==
    IF n > Len(frames) THEN outs = <<>>
    ELSE IF ~IsTurn(frames[n])
    THEN /\ outs # <<>>
         /\ Head(outs) = OutcomeOf(frames[n])
         /\ OutcomesFollow(Tail(outs), frames, n + 1, agg, inflight)
    ELSE /\ outs # <<>>
         /\ Head(outs) = Processing
         /\ IF n = Len(frames) /\ inflight THEN Len(outs) = 1
            ELSE /\ Len(outs) >= 2
                 /\ \/ outs[2].type = "error"
                    \/ /\ outs[2].type =
                            (IF agg THEN "aggregate_result" ELSE "result")
                       /\ outs[2].text = TextOfTurn(agg, frames, n)
                 /\ OutcomesFollow(SubSeq(outs, 3, Len(outs)), frames, n + 1,
                                   agg, inflight)

\* The outcomes of a connection are the info frame and then the outcomes of
\* its frames; a call is in flight only for the last frame, a normal turn.
InArrivalOrder(c) ==
    IF pc[c] = "connecting" THEN sent[c] = <<>> /\ received[c] = <<>>
    ELSE /\ sent[c] # <<>>
         /\ Head(sent[c]) = Info
         /\ (pc[c] = "extract") =>
              (received[c] # <<>> /\ IsTurn(Last(received[c])))
         /\ OutcomesFollow(Tail(sent[c]), received[c], 1, aggregate[c],
                           pc[c] = "extract")

\* C17: after the info outcome the outcomes follow the arrival order of the
\* frames: one for a malformed, reset or empty-content frame, processing and
\* then one of result, aggregate_result or error for a normal turn, and no
\* frame is read while a call is in flight.
C17_OutcomesInArrivalOrder == \A c \in conns : InArrivalOrder(c)

\* C18: in aggregate mode the text of a call is the "<role>: <content>" lines,
\* in arrival order, of the normal turns received since the last reset, the
\* current one included, with role "user" when absent or blank and content
\* trimmed.
C18_AggregateTextIsFlattenedHistory ==
    \A c \in conns :
        (aggregate[c] /\ pc[c] = "extract") =>
          call_text[c] = TextOfTurns(TurnsSinceReset(received[c]))

\* The text of a call has two lines, the first of a turn with a blank role.
C18_Witness ==
    \E c \in conns :
        /\ aggregate[c] /\ pc[c] = "extract"
        /\ Len(TurnsSinceReset(received[c])) = 2
        /\ Blank(TurnsSinceReset(received[c])[1].role)
        /\ TurnsSinceReset(received[c])[2].role = Str_bot
        /\ LineCount(call_text[c]) = 2

\* C19: in single-shot mode the turn history is always empty, the text of a
\* call is the trimmed content of the turn, and a result frame carries the
\* text and every span of the call.
C19_SingleShotIsStateless ==
    \A c \in conns :
        ~aggregate[c] =>
          /\ conversation_messages[c] = <<>>
          /\ (pc[c] = "extract") =>
               call_text[c] = ContentOf(Last(received[c]))
          /\ (sent[c] # <<>> /\ Last(sent[c]).type = "result") =>
               /\ Last(sent[c]).text = call_text[c]
               /\ CarriesAll(Last(sent[c]), doc[c].extractions)

\* Two turns of a single-shot session were each answered by the same span.
C19_Witness ==
    \E c \in conns : \E i, j \in 1..Len(sent[c]) :
        /\ ~aggregate[c]
        /\ i < j
        /\ sent[c][i].type = "result"
        /\ Last(sent[c]).type = "result" /\ j = Len(sent[c])
        /\ \E a \in Elems(sent[c][i].extractions) :
             \E b \in Elems(sent[c][j].extractions) : SameSpanKey(a, b)

\* The turn history a connection has after these frames, had it run alone.
HistoryOf(agg, frames) ==
    IF agg
    THEN LET turns == TurnsSinceReset(frames)
         IN [i \in 1..Len(turns) |->
               [role |-> RoleOf(turns[i]), content |-> ContentOf(turns[i])]]
    ELSE <<>>

\* C20: under every interleaving of the frames and calls of two connections,
\* the turn history of each connection is the history of its own frames and
\* its outcomes are those of its own frames, as if it ran alone: a turn, a
\* reset or a failure of the other connection changes neither.
C20_SessionsAreIndependent ==
    \A c \in conns :
        /\ conversation_messages[c] = HistoryOf(aggregate[c], received[c])
        /\ InArrivalOrder(c)
        /\ (pc[c] = "extract") =>
             call_text[c] = TextOfTurn(aggregate[c], received[c], Len(received[c]))

\* Two aggregate sessions interleaved: one has a turn in its history, the
\* other was reset after a failed turn and has none.
C20_Witness ==
    \E c, d \in conns :
        /\ c # d
        /\ aggregate[c] /\ aggregate[d]
        /\ Len(conversation_messages[c]) = 1
        /\ \E i \in 1..Len(sent[c]) : sent[c][i].type = "aggregate_result"
        /\ conversation_messages[d] = <<>>
        /\ \E i, j \in 1..Len(sent[d]) :
             i < j /\ sent[d][i] = ModelError /\ sent[d][j] = EotAck

\* C21: while the extraction call of one connection is in progress, a frame
\* of another connection that is waiting for one is read and processed; the
\* connection of the call reads no frame before the call has returned or
\* raised, and the call stays to return or to raise.
C21_CallBlocksOwnSessionOnly ==
    \A c \in conns :
        (pc[c] = "extract") =>
          /\ \A d \in conns \ {c} :
               (pc[d] = "receive" /\ Len(received[d]) < MaxFrames) =>
                 \A data \in FramesSent : ENABLED Receive(d, data)
          /\ \A data \in FramesSent : ~ENABLED Receive(c, data)
          /\ ~ENABLED Disconnect(c)
          /\ ENABLED ExtractRaises(c)
          /\ \A extractions \in DocsReturned :
               ENABLED ExtractReturns(c, extractions)

\* The calls of two connections are in progress at once: the frame of the
\* second was read while the call of the first was running.
C21_Witness ==
    \E c, d \in conns :
        /\ c # d
        /\ pc[c] = "extract" /\ pc[d] = "extract"
        /\ Len(sent[c]) > 2

\* The turns of a request as the frames of an aggregate session.
AsFrames(messages) ==
    [i \in 1..Len(messages) |->
       Object(FALSE, "", messages[i].role, messages[i].content)]

\* C22: the endpoint calls the extraction function on the text that
\* aggregate mode submits for the same turns, "<role>: <content>" lines with
\* the role trimmed and "user" when blank; and a 200 response carries the
\* text of its request.
C22_RestFlattensAsAggregate ==
    /\ (rest_pc = "extract") =>
         rest_text = TextOfTurns(SelectSeq(AsFrames(rest_messages), IsTurn))
    /\ (rest_pc = "idle" /\ rest_response.status = 200) =>
         rest_response.text =
           TextOfTurns(SelectSeq(AsFrames(rest_messages), IsTurn))

\* C23: the constructor rejects a threshold that is zero or negative, so
\* the extractor that processed a push has a positive threshold.
C23_InvalidThresholdRejected ==
    (last.op = "push" /\ last.chunk # <<>>) => max_char_buffer >= 1

\* C24: every step of an extractor (push, flush, with a call that returns or
\* raises, or without a call) leaves the Merged Set it found as a prefix of
\* the Merged Set it leaves: no accepted span is removed, moved or replaced.
C24_MergedOnlyGrows ==
    [][IsPrefix(merged, merged')]_vars

\* A call returned a span that overlaps an accepted one and did not return
\* the accepted one: the accepted span stayed and the other was not accepted.
C24_Witness ==
    /\ last.called /\ ~last.raised
    /\ last.before.merged # <<>>
    /\ IsPrefix(last.before.merged, merged)
    /\ \E m \in Elems(last.before.merged) : \E e \in Elems(last.new_list) :
         /\ OverlapRule(e, m)
         /\ m \notin Elems(last.new_list)
         /\ e \notin Elems(merged)

\* The spans the last call of _merge appended to first.
MergeAccepted == SubSeq(merged, Len(last.before.merged) + 1, Len(merged))

\* C25: the overlap test of merge is symmetric and true of two spans exactly
\* when both have an interval and s1 < e2 and s2 < e1, so that adjacent
\* intervals do not overlap; a span without interval overlaps nothing, and
\* merge accepts a span with its identity key iff no span of that key was in
\* the list merged into.
C25_OverlapRule ==
    (last.op = "merge") =>
      LET first == last.before.merged
          new == last.new_list
          spans == Elems(first) \cup Elems(new)
      IN /\ \A a, b \in spans :
              /\ overlaps(a, b) = overlaps(b, a)
              /\ overlaps(a, b) = OverlapRule(a, b)
              /\ ~HasInterval(a) => ~overlaps(a, b)
         /\ \A e \in Elems(new) :
              ~HasInterval(e) =>
                /\ (\E m \in Elems(MergeAccepted) : SameIdentity(e, m))
                     <=> ~(\E m \in Elems(first) : SameIdentity(e, m))
                /\ Cardinality({ i \in 1..Len(merged) :
                                   SameIdentity(e, merged[i]) }) = 1

\* The adjacent [0,5) and [5,8) and a span without interval are all in the
\* merged list, and the last call, given a span with None positions,
\* accepted a span without positions.
C25_Witness ==
    /\ last.op = "merge"
    /\ \E i, j, k \in 1..Len(merged) :
         /\ merged[i].char_interval = CharInterval(0, 5)
         /\ merged[j].char_interval = CharInterval(5, 8)
         /\ merged[k].char_interval = NoInterval
    /\ \E e \in Elems(last.new_list) :
         e.char_interval = CharInterval(NonePos, NonePos)
    /\ \E m \in Elems(MergeAccepted) : ~HasInterval(m)

RECURSIVE JoinedLines(_)
\* The fragments, a line separator between each two.
JoinedLines(parts) ==
    LET n == Len(parts)
    IN IF n = 0 THEN <<>>
       ELSE JoinedLines(SubSeq(parts, 1, n - 1))
              \o (IF n > 1 THEN <<"\n">> ELSE <<>>) \o parts[n]

\* C26: the transcript is the non-empty fragments pushed so far, in push
\* order, and is never shortened; every extraction call of push and flush
\* receives all of them joined by the line separator.
C26_CallGetsWholeTranscript ==
    [][/\ transcript' =
            IF last'.op = "push" /\ last'.chunk # <<>>
            THEN Append(transcript, last'.chunk) ELSE transcript
       /\ last'.called => last'.full_text = JoinedLines(transcript')]_vars

\* The second call, after a first one that raised or covered a fragment: its
\* text has more fragments than were pending.
C26_Witness ==
    /\ calls = 2
    /\ last.called
    /\ Len(transcript) = 3
    /\ Len(last.before.buffer) < 2
    /\ LineCount(last.full_text) = 3

\* C27: a frame is classified in the order malformed, reset, empty content,
\* normal turn: text that is no JSON gets the invalid-payload outcome; an
\* object with the reset signal gets the acknowledgment alone, with or
\* without content, and nothing is appended or submitted; an object without
\* the signal gets the warning when its content is blank and the processing
\* outcome otherwise.
C27_ClassificationOrder ==
    [][\A c \in conns :
         (Reads(c) /\ FrameRead(c).json \in {"invalid", "object"}) =>
           LET f == FrameRead(c)
           IN IF f.json = "invalid"
              THEN SendsOnly(c, InvalidJson) /\ pc'[c] = "receive"
              ELSE IF f.eot \/ f.type = "eot"
              THEN /\ SendsOnly(c, EotAck)
                   /\ pc'[c] = "receive"
                   /\ call_text'[c] = call_text[c]
                   /\ conversation_messages'[c] \in {<<>>, conversation_messages[c]}
              ELSE IF ContentOf(f) = <<>>
              THEN SendsOnly(c, EmptyContent) /\ pc'[c] = "receive"
              ELSE SendsOnly(c, Processing) /\ pc'[c] = "extract"]_vars

\* A reset frame with content and one without were each acknowledged, and
\* nothing else was sent after the info frame.
C27_Witness ==
    \E c \in conns :
        /\ Len(received[c]) = 2
        /\ \A i \in 1..2 : received[c][i].eot \/ received[c][i].type = "eot"
        /\ \E i \in 1..2 : received[c][i].content = <<"a">>
        /\ \E i \in 1..2 : received[c][i].content = Missing
        /\ sent[c] = <<Info, EotAck, EotAck>>
        /\ pc[c] = "receive"

\* C28: in aggregate mode the turn history is, in every state, the (role,
\* trimmed content) of the normal turns received since the last reset, in
\* arrival order, those whose call raised included; the text of a call has a
\* line for each of them.
C28_HistoryIsTurnsSinceReset ==
    \A c \in conns :
        aggregate[c] =>
          /\ conversation_messages[c] = HistoryOf(TRUE, received[c])
          /\ (pc[c] = "extract") =>
               /\ LineCount(call_text[c]) = Len(conversation_messages[c])
               /\ Last(conversation_messages[c]).content
                    = ContentOf(Last(received[c]))

\* The call of the first turn raised, the second frame was malformed or had
\* no content, and the text of the third has the line of the failed turn.
C28_Witness ==
    \E c \in conns :
        /\ aggregate[c]
        /\ Len(received[c]) = 3
        /\ IsTurn(received[c][1])
        /\ sent[c][3] = ModelError
        /\ IsMalformed(received[c][2]) \/ IsEmptyContent(received[c][2])
        /\ pc[c] = "extract"
        /\ Len(conversation_messages[c]) = 2
        /\ LineCount(call_text[c]) = 2

NonEmpty(chunks) == SelectSeq(chunks, LAMBDA ch : ch # <<>>)

\* The non-empty chunks of the stream: those pushed, the one in the push
\* that is running, those not delivered yet.
StreamFragments ==
    transcript
      \o (IF run_pc = "push" THEN NonEmpty(<<run_chunk>>) ELSE <<>>)
      \o NonEmpty(aiter)

\* C29: arun_async pushes the chunks one at a time in stream order, flushes
\* once when the stream is exhausted and then ends; it ends with nothing
\* pending unless a call raised, it yields no empty delta, and it ends.
C29_RunPushesThenFlushesOnce ==
    /\ [][/\ StreamFragments' = StreamFragments
          /\ run_pc \notin {"done", "raised"}
          /\ (exvars' # exvars) =>
               (run_pc \in {"push", "flush"} /\ last'.op = run_pc)
          /\ (run_pc = "flush") => run_pc' \in {"done", "raised"}]_vars
    /\ [](/\ run_pc \in {"flush", "done"} => aiter = <<>>
          /\ run_pc = "raised" => last.raised
          /\ run_pc = "done" =>
               /\ last.op = "flush"
               /\ buffer = <<>>
               /\ transcript = StreamFragments
          /\ \A i \in 1..Len(all_deltas) : all_deltas[i] # <<>>)
    /\ <>(run_pc \in {"done", "raised"})

\* A run over three chunks ended: a push made a call, the flush another.
C29_Witness ==
    /\ run_pc = "done"
    /\ Len(transcript) = 3
    /\ calls = 2
    /\ last.called
    /\ Len(all_deltas) = 2

IsSuffix(p, q) ==
    Len(p) <= Len(q) /\ SubSeq(q, Len(q) - Len(p) + 1, Len(q)) = p

\* The pending buffer is the tail of the transcript that no successful
\* extraction has covered: empty after a call that returned, and otherwise
\* what was pending before the last call with the fragment it pushed.
PendingIsUncovered ==
    /\ IsSuffix(buffer, transcript)
    /\ Extracted => buffer = <<>>
    /\ (last.op \in {"push", "flush"} /\ ~Extracted) =>
         buffer = (IF last.op = "push" /\ last.chunk # <<>>
                   THEN Append(last.before.buffer, last.chunk)
                   ELSE last.before.buffer)

\* C30 as claimed, for the thresholds from 1 on: the pending buffer is the
\* uncovered tail of the transcript, and while no extraction call has raised
\* its size after a push that returned is below the trigger bound.
C30_PendingBelowBound ==
    /\ PendingIsUncovered
    /\ (max_char_buffer >= 1 /\ last.op = "push" /\ ~last.failed) =>
         SumLen(buffer) < max_char_buffer \div 2

\* C30 as amended: the pending buffer is the uncovered tail of the
\* transcript, and while no extraction call has raised it is, after a push
\* that returned, empty or of a size below the trigger bound.
C30_PendingEmptyOrBelowBound ==
    /\ PendingIsUncovered
    /\ (last.op = "push" /\ ~last.failed) =>
         (buffer = <<>> \/ SumLen(buffer) < max_char_buffer \div 2)

\* With threshold 1 the bound is 0: the push made the call, and the empty
\* buffer it left is not of a size below 0.
C30_Witness ==
    /\ max_char_buffer = 1
    /\ last.op = "push"
    /\ Extracted
    /\ ~last.failed
    /\ buffer = <<>>
    /\ transcript # <<>>

====
